---- MODULE Spec2Model ----
(***************************************************************************)
(* Validation workflow engine of CloudTracker                              *)
(* (backend/app/core/workflow_service.py, WorkflowService).                *)
(*                                                                         *)
(* The state is the content of the database tables the engine reads and    *)
(* writes (applications, checklist_items, validation_workflows,            *)
(* validation_steps with their findings) plus, for every scheduled         *)
(* background task run_validation_workflow, its position and its locals.   *)
(***************************************************************************)
EXTENDS Integers, Sequences, FiniteSets, TLC

\* ------------------------------------------------------------------------
\* Bounds of the model
\* ------------------------------------------------------------------------
MaxWorkflows == 1      \* workflows created by validate_application
MaxSteps == 2          \* longest explicit step list of a request
MaxRuns == 2           \* invocations of run_validation_workflow per workflow

\* ------------------------------------------------------------------------
\* Enumerations (app/models/validation.py)
\* ------------------------------------------------------------------------
Null == "null"

ValidationStatus == {"pending", "in_progress", "completed", "failed"}

ValidationStepStatus == {"queued", "running", "completed", "failed", "skipped"}

\* The members of ValidationStepType in declaration order.
ValidationStepType ==
    << "code_quality", "security", "performance", "documentation",
       "deployment", "monitoring", "logging", "external_integration",
       "app_requirements", "platform_requirements" >>

StepTypeSet == { ValidationStepType[k] : k \in 1..Len(ValidationStepType) }

\* Step types the orchestrator has an executor branch for
\* (the if/elif chain of run_validation_workflow).
ExecutorTypes ==
    { "code_quality", "security", "app_requirements",
      "platform_requirements", "external_integration" }

\* Step types a request's explicit step list is drawn from: every type that
\* has an executor and one of the five types that have none.
RequestStepTypes == ExecutorTypes \cup {"performance"}

\* Integration names a request may configure.
IntegrationNames == {"jira", "grafana"}

\* ------------------------------------------------------------------------
\* Checklist data of the application (app/models/models.py)
\* ------------------------------------------------------------------------
\* Categories that may be associated with the application: ac1 is an
\* application category with two items, pc1 a platform category with one
\* item, pc0 a platform category without items.
ApplicationCategoryIds == {"ac1"}

PlatformCategoryIds == {"pc0", "pc1"}

ItemIds == {"a1", "a2", "p1"}

\* Category.checklist_items
CategoryItems(c) ==
    CASE c = "ac1" -> {"a1", "a2"}
      [] c = "pc1" -> {"p1"}
      [] OTHER -> {}

\* ChecklistItem.description, as a sequence of words.
Description(i) ==
    CASE i = "a1" -> << "Retry", "Logic" >>
      [] i = "a2" -> << "Custom", "requirement" >>
      [] OTHER -> << "Platform", "backup" >>

ItemStatus == {"Not Started", "In Progress", "Completed", "Verified"}

\* Statuses a checklist item may have before any workflow touches it.
InitialItemStatus == {"Not Started", "Verified"}

NoComment == [text |-> Null, wf |-> 0]

\* No call of _analyze_repository has been made on its own.
NoAnalysis == [called |-> FALSE]

VARIABLES
    appExists,               \* the Application row exists
    application_categories,  \* Application.application_categories
    platform_categories,     \* Application.platform_categories
    items,                   \* checklist_items rows: status, evidence, comments
    workflows,               \* validation_workflows rows, indexed by workflow id
    steps,                   \* validation_steps rows of every workflow
    tasks,                   \* background tasks run_validation_workflow
    analysis                 \* the last call of _analyze_repository made
                             \* on its own: what it met and what it returned

vars == << appExists, application_categories, platform_categories, items,
           workflows, steps, tasks, analysis >>

WorkflowIds == 1..Len(workflows)

\* Items reachable through a set of categories, as the executors and the
\* reconciler collect them.
ItemsOf(cats) == UNION { CategoryItems(c) : c \in cats }

\* ------------------------------------------------------------------------
\* Requests (app/schemas/validation.py, AppValidationRequest)
\* ------------------------------------------------------------------------
\* default_factory of AppValidationRequest.steps: every step type.
DefaultSteps == ValidationStepType

RECURSIVE SeqsUpTo(_, _)
SeqsUpTo(S, n) ==
    IF n = 0 THEN { << >> }
    ELSE LET shorter == SeqsUpTo(S, n - 1)
         IN shorter \cup { Append(q, x) : q \in shorter, x \in S }

Range(q) == { q[k] : k \in 1..Len(q) }

StepLists == SeqsUpTo(RequestStepTypes, MaxSteps) \cup {DefaultSteps}

\* The parsed requests the model submits.  integrations is read only by the
\* external_integration branch, so it varies only for step lists that
\* name that type.
Requests ==
    { r \in [steps : StepLists,
             integrations : SUBSET IntegrationNames,
             repository_url : {"", "https://repo"},
             commit_id : {Null}] :
        /\ ("external_integration" \notin Range(r.steps)) => r.integrations = {}
        /\ r.steps = DefaultSteps => r.integrations = {} }

\* ------------------------------------------------------------------------
\* Rows
\* ------------------------------------------------------------------------
NoDetails == [kind |-> "none"]

\* Variant of NewStep: the row is created already running.
NewStep_Started(step_type) ==
    [ step_type      |-> step_type,
      status         |-> "running",
      started_at     |-> Null,
      completed_at   |-> Null,
      result_summary |-> Null,
      details        |-> NoDetails,
      error_message  |-> Null,
      findings       |-> << >> ]

\* ValidationStep(id=uuid4(), workflow_id, step_type, status=QUEUED)
NewStep(step_type) ==
    [ step_type      |-> step_type,
      status         |-> "queued",
      started_at     |-> Null,
      completed_at   |-> Null,
      result_summary |-> Null,
      details        |-> NoDetails,
      error_message  |-> Null,
      findings       |-> << >> ]

\* ValidationWorkflow(id, application_id, status=PENDING, repository_url,
\* commit_id, request_data); the nullable columns start as NULL.
NewWorkflow(r) ==
    [ status             |-> "pending",
      completed_at       |-> Null,
      overall_compliance |-> Null,
      summary            |-> Null,
      repository_url     |-> r.repository_url,
      commit_id          |-> r.commit_id ]

\* The orchestrator's session holds no loaded step row: step_model is None,
\* or a commit of that session has expired it.
NoStepModel == [row |-> 0, status |-> Null]

\* No pass of _update_checklist_items in the current invocation.
NotReconciled ==
    [passes |-> 0, found |-> FALSE, all_findings |-> {}, before |-> << >>]

\* The background task scheduled by validate_application, before it starts:
\* its arguments, its position, its locals (application, steps_to_run, the
\* loop index i, all_steps_successful, the step an executor works on, the
\* items an executor has loaded, the step row step_model the orchestrator's
\* session holds) and, as history, the number of times it was invoked, the
\* result of every step of the current invocation, its reconciliation, and
\* whether no other run was under way when it started.
NewTask(r) ==
    [ pc                   |-> "scheduled",
      request              |-> r,
      application          |-> Null,
      steps_to_run         |-> << >>,
      i                    |-> 0,
      all_steps_successful |-> TRUE,
      step                 |-> 0,
      loaded               |-> << >>,
      step_model           |-> NoStepModel,
      runs                 |-> 1,
      results              |-> << >>,
      reconciled           |-> NotReconciled,
      alone                |-> TRUE ]

\* ValidationStepFinding(description, severity)
Finding(description, severity) ==
    [description |-> description, severity |-> severity]

BoolText(b) == IF b THEN "true" ELSE "false"

\* ------------------------------------------------------------------------
\* Initial state: an application with some categories associated, its
\* checklist items untouched by any workflow, and no workflow.
\* ------------------------------------------------------------------------
Init ==
    /\ appExists = TRUE
    /\ application_categories \in SUBSET ApplicationCategoryIds
    /\ platform_categories \in { {}, {"pc0"}, {"pc1"} }
    /\ items \in [ItemIds -> [status : InitialItemStatus,
                              evidence : {Null},
                              comments : {NoComment}]]
    /\ \A it \in ItemIds :
          it \notin ItemsOf(application_categories \cup platform_categories)
             => items[it].status = "Not Started"
    /\ workflows = << >>
    /\ steps = << >>
    /\ tasks = << >>
    /\ analysis = NoAnalysis

\* ------------------------------------------------------------------------
\* POST /validations/app/{app_id}: validate_application, which calls
\* initialize_workflow and schedules run_validation_workflow.
\* ------------------------------------------------------------------------
InitializeWorkflow(r) ==
    /\ Len(workflows) < MaxWorkflows
    /\ appExists                      \* otherwise the route answers 404
    /\ workflows' = Append(workflows, NewWorkflow(r))
    /\ steps' = Append(steps, [k \in 1..Len(r.steps) |-> NewStep(r.steps[k])])
    /\ tasks' = Append(tasks, NewTask(r))
    /\ UNCHANGED << analysis,
                    appExists, application_categories, platform_categories,
                    items >>

\* DELETE /applications/{application_id}: delete_application.  The workflow
\* rows are not deleted with the application.
DeleteApplication ==
    /\ appExists
    /\ appExists' = FALSE
    /\ UNCHANGED << analysis,
                    application_categories, platform_categories, items,
                    workflows, steps, tasks >>

\* ------------------------------------------------------------------------
\* run_validation_workflow
\* ------------------------------------------------------------------------
\* Every other background task is still to start or has returned.
NoOtherRun(w) ==
    \A v \in WorkflowIds \ {w} : tasks[v].pc \in {"scheduled", "returned"}

\* Lines 162-183: look the application and the workflow up, mark the workflow
\* in progress and fix the list of steps to run.
StartRun(w) ==
    /\ tasks[w].pc = "scheduled"
    /\ IF ~appExists
       THEN /\ tasks' = [tasks EXCEPT ![w].pc = "returned",
                                      ![w].application = "not found",
                                      ![w].step_model = NoStepModel,
                                      ![w].results = << >>,
                                      ![w].reconciled = NotReconciled,
                                      ![w].alone = NoOtherRun(w)]
            /\ UNCHANGED workflows
       ELSE /\ workflows' = [workflows EXCEPT ![w].status = "in_progress"]
            /\ tasks' = [tasks EXCEPT
                 ![w].pc = "loop",
                 ![w].application = "found",
                 ![w].steps_to_run =
                     IF tasks[w].request.steps # << >>
                     THEN tasks[w].request.steps
                     ELSE DefaultSteps,
                 ![w].i = 1,
                 ![w].all_steps_successful = TRUE,
                 ![w].step_model = NoStepModel,
                 ![w].results = << >>,
                 ![w].reconciled = NotReconciled,
                 ![w].alone = NoOtherRun(w)]
    /\ UNCHANGED << analysis,
                    appExists, application_categories, platform_categories,
                    items, steps >>

\* The task is at the head of the for loop with a step type left to run.
AtStep(w) ==
    /\ tasks[w].pc = "loop"
    /\ tasks[w].i <= Len(tasks[w].steps_to_run)

CurrentType(w) == tasks[w].steps_to_run[tasks[w].i]

\* Rows the query of lines 189-191 can return: .first() without ORDER BY
\* yields any row of the workflow with the step type.
MatchingRows(w, step_type) ==
    { k \in 1..Len(steps[w]) : steps[w][k].step_type = step_type }

\* Variant of CallsExecutor: external_integration is run even without
\* integrations.
CallsExecutor_IgnoresIntegrations(w, step_type) ==
    step_type \in ExecutorTypes

\* The branch of the if/elif chain that calls an executor.
CallsExecutor(w, step_type) ==
    /\ step_type \in ExecutorTypes
    /\ step_type = "external_integration" => tasks[w].request.integrations # {}

\* Variant of Continue: the verdict keeps only the last step's flag.
Continue_LastStepOnly(w, k, success) ==
    [tasks EXCEPT
       ![w].pc = "loop",
       ![w].i = tasks[w].i + 1,
       ![w].step = 0,
       ![w].all_steps_successful = success,
       ![w].results = Append(tasks[w].results,
                             [row |-> k, success |-> success])]

\* Lines 259-264 and 272: fold the result of the step on row k into
\* all_steps_successful and go on to the next step of the list.
Continue(w, k, success) ==
    [tasks EXCEPT
       ![w].pc = "loop",
       ![w].i = tasks[w].i + 1,
       ![w].step = 0,
       ![w].all_steps_successful = tasks[w].all_steps_successful /\ success,
       ![w].results = Append(tasks[w].results,
                             [row |-> k, success |-> success])]

\* Lines 193-195: no row of the step type, the iteration is skipped.
StepNotFound(w) ==
    /\ AtStep(w)
    /\ MatchingRows(w, CurrentType(w)) = {}
    /\ tasks' = [tasks EXCEPT ![w].i = tasks[w].i + 1,
                              ![w].step_model = NoStepModel]
    /\ UNCHANGED << analysis,
                    appExists, application_categories, platform_categories,
                    items, workflows, steps >>

\* Variant of SkipStep: the unexecuted step is marked completed.
SkipStep_MarksCompleted(w) ==
    /\ AtStep(w)
    /\ ~CallsExecutor(w, CurrentType(w))
    /\ \E k \in MatchingRows(w, CurrentType(w)) :
          /\ steps' = [steps EXCEPT ![w][k] =
                [@ EXCEPT !.status = "completed",
                          !.completed_at = "set",
                          !.result_summary = "Skipped"]]
          /\ tasks' = [Continue(w, k, TRUE) EXCEPT ![w].step_model = NoStepModel]
    /\ UNCHANGED << analysis,
                    appExists, application_categories, platform_categories,
                    items, workflows >>

\* Lines 242-257: the orchestrator skips the step itself: no integrations
\* are defined, or the step type has no executor.
SkipStep(w) ==
    /\ AtStep(w)
    /\ ~CallsExecutor(w, CurrentType(w))
    /\ \E k \in MatchingRows(w, CurrentType(w)) :
          /\ steps' = [steps EXCEPT ![w][k] =
                [@ EXCEPT !.status = "skipped",
                          !.completed_at = "set",
                          !.result_summary = "Skipped"]]
          /\ tasks' = [Continue(w, k, TRUE) EXCEPT ![w].step_model = NoStepModel]
    /\ UNCHANGED << analysis,
                    appExists, application_categories, platform_categories,
                    items, workflows >>

\* Lines 189-191: the object the orchestrator's query returns for row k.
\* The session keeps the object it already holds for that row, with the
\* column values it was loaded with; otherwise it loads the row as
\* committed.
StepModel(w, k) ==
    IF tasks[w].step_model.row = k
    THEN tasks[w].step_model
    ELSE [row |-> k, status |-> steps[w][k].status]

\* Every executor begins the same way (e.g. lines 326-334): load the step,
\* set it RUNNING, stamp started_at, commit.
BeginExecutor(w) ==
    /\ AtStep(w)
    /\ CallsExecutor(w, CurrentType(w))
    /\ \E k \in MatchingRows(w, CurrentType(w)) :
          /\ steps' = [steps EXCEPT ![w][k] =
                [@ EXCEPT !.status = "running", !.started_at = "set"]]
          /\ tasks' = [tasks EXCEPT ![w].pc = "executor", ![w].step = k,
                                    ![w].step_model = StepModel(w, k)]
    /\ UNCHANGED << analysis,
                    appExists, application_categories, platform_categories,
                    items, workflows >>

\* Lines 266-272: the executor call raises into the orchestrator (the
\* executors create their engine and session before their own try block).
ExecutorRaises(w) ==
    /\ AtStep(w)
    /\ CallsExecutor(w, CurrentType(w))
    /\ \E k \in MatchingRows(w, CurrentType(w)) :
          /\ steps' = [steps EXCEPT ![w][k] =
                [@ EXCEPT !.status = "failed",
                          !.completed_at = "set",
                          !.error_message = "error"]]
          /\ tasks' = [Continue(w, k, FALSE) EXCEPT ![w].step_model = NoStepModel]
    /\ UNCHANGED << analysis,
                    appExists, application_categories, platform_categories,
                    items, workflows >>

\* The task waits inside the executor of the given step type.
InExecutor(w, step_type) ==
    /\ tasks[w].pc = "executor"
    /\ steps[w][tasks[w].step].step_type = step_type

\* The except branch every executor ends with (e.g. lines 383-393): mark the
\* step failed with the error text and return success = False.
ExecutorFailed(w) ==
    [steps EXCEPT ![w][tasks[w].step] =
        [@ EXCEPT !.status = "failed",
                  !.completed_at = "set",
                  !.error_message = "error"]]

\* _run_code_quality_check after its sleep: two findings (12 linting issues,
\* 3 security issues), the step COMPLETED, success = True; or an exception
\* inside the try block.
RunCodeQualityCheck(w) ==
    /\ InExecutor(w, "code_quality")
    /\ \E raised \in BOOLEAN :
          IF raised
          THEN /\ steps' = ExecutorFailed(w)
               /\ tasks' = Continue(w, tasks[w].step, FALSE)
          ELSE /\ steps' = [steps EXCEPT ![w][tasks[w].step] =
                    [@ EXCEPT
                       !.status = "completed",
                       !.completed_at = "set",
                       !.result_summary = "Code quality analysis completed",
                       !.details = [kind |-> "code_quality"],
                       !.findings = @ \o
                          << Finding(<< "Found", "linting", "issues" >>, "warning"),
                             Finding(<< "Found", "security", "issues" >>, "error") >>]]
               /\ tasks' = Continue(w, tasks[w].step, TRUE)
    /\ UNCHANGED << analysis,
                    appExists, application_categories, platform_categories,
                    items, workflows >>

\* _run_security_check after its sleep: two findings (1 high severity
\* vulnerability, 2 compliance issues), the step COMPLETED, success = True;
\* or an exception inside the try block.
RunSecurityCheck(w) ==
    /\ InExecutor(w, "security")
    /\ \E raised \in BOOLEAN :
          IF raised
          THEN /\ steps' = ExecutorFailed(w)
               /\ tasks' = Continue(w, tasks[w].step, FALSE)
          ELSE /\ steps' = [steps EXCEPT ![w][tasks[w].step] =
                    [@ EXCEPT
                       !.status = "completed",
                       !.completed_at = "set",
                       !.result_summary = "Security analysis completed",
                       !.details = [kind |-> "security"],
                       !.findings = @ \o
                          << Finding(<< "Found", "high", "severity",
                                        "vulnerabilities" >>, "critical"),
                             Finding(<< "Found", "compliance", "issues" >>,
                                     "warning") >>]]
               /\ tasks' = Continue(w, tasks[w].step, TRUE)
    /\ UNCHANGED << analysis,
                    appExists, application_categories, platform_categories,
                    items, workflows >>

\* ------------------------------------------------------------------------
\* Checklist items as an ORM session handles them
\* ------------------------------------------------------------------------
ItemFields == {"status", "evidence", "comments"}

\* The rows of checklist_items in the order queries return them.
ItemOrder == << "a1", "a2", "p1" >>

InItemOrder(S) == SelectSeq(ItemOrder, LAMBDA it : it \in S)

\* db.commit() of a session that loaded the rows `loaded` and assigned the
\* rows `assigned`: the UPDATE carries the columns whose assigned value
\* differs from the loaded one, every other column keeps its stored value.
Flush(stored, loaded, assigned) ==
    [it \in ItemIds |->
        IF it \in DOMAIN assigned
        THEN [f \in ItemFields |->
                 IF assigned[it][f] # loaded[it][f]
                 THEN assigned[it][f]
                 ELSE stored[it][f]]
        ELSE stored[it]]

\* ------------------------------------------------------------------------
\* _analyze_repository
\* ------------------------------------------------------------------------
\* A dictionary is a function of its keys; d.update(e) takes e's value for
\* every key of e and keeps the other keys of d.
Update(d, e) ==
    [key \in DOMAIN d \cup DOMAIN e |->
        IF key \in DOMAIN e THEN e[key] ELSE d[key]]

\* How `git clone` ends: return code 0, another return code, TimeoutExpired
\* after 300 seconds, or any other exception (lines 747-769).
CloneOutcomes == {"cloned", "non-zero exit", "timed out", "raised"}

\* What a call of _analyze_repository meets: whether code_quality_engine
\* can be imported, how the clone ends, the two switches of the
\* configuration, whether CodeQualityAnalyzer.prep or .exec raises, and
\* whether the regex scan and the LLM report find retry logic.
AnalysisEnvs ==
    [ code_quality_available : BOOLEAN,
      clone                  : CloneOutcomes,
      use_regex_validation   : BOOLEAN,
      use_llm_analysis       : BOOLEAN,
      analyzer               : {"ok", "prep raises", "exec raises"},
      regex_retry            : BOOLEAN,
      llm_retry              : BOOLEAN ]

\* _simulate_repository_analysis (lines 1035-1082): every capability true.
SimulateRepositoryAnalysis ==
    [ has_retry_logic |-> TRUE, logging_frameworks |-> "log4j, slf4j" ]

\* _analyze_repository_with_regex (lines 1655-1780), of which the model
\* keeps the capability its rule reads.
AnalyzeRepositoryWithRegex(env) == [ has_retry_logic |-> env.regex_retry ]

\* _parse_llm_analysis_report (lines 882-1032): the same capabilities, and
\* the raw report.
ParseLlmAnalysisReport(env) ==
    [ has_retry_logic |-> env.llm_retry,
      logging_frameworks |-> "",
      raw_report |-> "report" ]

\* _analyze_repository (lines 687-879): the dictionary it returns, and the
\* return statement that produced it.
AnalyzeRepository(env) ==
    LET regex_results == AnalyzeRepositoryWithRegex(env)
        simulated == [tier |-> "simulated",
                      results |-> SimulateRepositoryAnalysis]
        regex == [tier |-> "regex", results |-> regex_results]
    IN
    IF ~env.code_quality_available
    THEN simulated                                        \* lines 710-719
    ELSE IF env.clone = "non-zero exit"                   \* lines 759-761
    THEN [tier |-> "clone error",
          results |-> [error |-> "Failed to clone repository: stderr"]]
    ELSE IF env.clone = "timed out"                       \* lines 764-766
    THEN [tier |-> "clone error",
          results |-> [error |-> "Repository clone timed out"]]
    ELSE IF env.clone = "raised"                          \* lines 767-769
    THEN [tier |-> "clone error",
          results |-> [error |-> "Error cloning repository: e"]]
    ELSE IF env.use_regex_validation /\ ~env.use_llm_analysis
    THEN regex                                            \* lines 807-818
    ELSE IF ~env.use_llm_analysis
    THEN simulated                                        \* lines 821-823
    ELSE IF env.analyzer = "prep raises"
    THEN simulated                          \* lines 837-841, then 875-879
    ELSE IF env.analyzer = "exec raises"                  \* lines 863-869
    THEN (IF env.use_regex_validation THEN regex ELSE simulated)
    ELSE [tier |-> "llm",                                 \* lines 844-861
          results |->
             IF env.use_regex_validation
             THEN Update(ParseLlmAnalysisReport(env), regex_results)
             ELSE ParseLlmAnalysisReport(env)]

\* A call of _analyze_repository on its own.
Analyze(env) ==
    /\ analysis' = [called |-> TRUE, env |-> env,
                    returned |-> AnalyzeRepository(env)]
    /\ UNCHANGED << appExists, application_categories, platform_categories,
                    items, workflows, steps, tasks >>

\* ------------------------------------------------------------------------
\* _validate_app_requirements
\* ------------------------------------------------------------------------
\* What _analyze_repository may hand back: a capability map (of which the
\* model keeps the capability its rule reads) or an error dictionary.
RepoAnalyses == { AnalyzeRepository(env).results : env \in AnalysisEnvs }

\* repo_analysis_results stays {} when no repository URL is given.
EmptyAnalysis == [key \in {} |-> TRUE]

\* Lines 584-601: the descriptions that are keys of validation_rules.
HasValidationRule(description) == description = << "Retry", "Logic" >>

\* _validate_retry_logic, the rule of "Retry Logic".
ValidateRetryLogic(repo_analysis) ==
    /\ "has_retry_logic" \in DOMAIN repo_analysis
    /\ repo_analysis["has_retry_logic"]

\* Variant of Validated that applies the rule to every item, whether or not
\* its description is in the table.
Validated_WithoutRule(it, repo_analysis) == ValidateRetryLogic(repo_analysis)

\* Lines 607-618: validated is False unless a rule matches and accepts.
Validated(it, repo_analysis) ==
    /\ HasValidationRule(Description(it))
    /\ ValidateRetryLogic(repo_analysis)

\* Variant of CompliancePercentage that reports full compliance when there
\* is no item.
CompliancePercentage_FullWhenEmpty(passed_items, total_items) ==
    IF total_items > 0 THEN (passed_items * 100) \div total_items ELSE 100

\* compliance_percentage (lines 641, 1402), rounded down to a whole number.
CompliancePercentage(passed_items, total_items) ==
    IF total_items > 0 THEN (passed_items * 100) \div total_items ELSE 0

RequirementDetails(passed, failed) ==
    [ kind                  |-> "requirements",
      total_items           |-> Cardinality(passed \cup failed),
      passed_items          |-> Cardinality(passed),
      failed_items          |-> Cardinality(failed),
      compliance_percentage |->
          CompliancePercentage(Cardinality(passed),
                               Cardinality(passed \cup failed)) ]

\* step.details of an app_requirements step (lines 649-655) also keeps
\* the dictionary _analyze_repository returned.
AppRequirementDetails(passed, failed, repo_analysis) ==
    Update(RequirementDetails(passed, failed),
           [repository_analysis |-> repo_analysis])

\* Variant of RequirementSuccess: the step succeeds only when no item failed.
RequirementSuccess_NoFailures(failed) == failed = {}

\* The success flag a requirement executor returns after its loop
\* (lines 659-660 and 1416-1417): the literal True, whatever the set of
\* items that failed.
RequirementSuccess(failed) == TRUE

\* One warning finding per failed item, in the order the loop visits them.
FindingsFor(prefix, failed) ==
    LET order == InItemOrder(failed)
    IN [k \in 1..Len(order) |->
           Finding(prefix \o Description(order[k]), "warning")]

\* The body of _validate_app_requirements after the step is RUNNING
\* (lines 546-680).
ValidateAppRequirements(w) ==
    /\ InExecutor(w, "app_requirements")
    /\ LET k == tasks[w].step
           url == tasks[w].request.repository_url
       IN
       \/ \* lines 552-554: the application is gone
          /\ ~appExists
          /\ tasks' = Continue(w, tasks[w].step, FALSE)
          /\ UNCHANGED << steps, items >>
       \/ \* an exception inside the try block (lines 670-680)
          /\ appExists
          /\ steps' = ExecutorFailed(w)
          /\ tasks' = Continue(w, tasks[w].step, FALSE)
          /\ UNCHANGED items
       \/ /\ appExists
          /\ \E repo_analysis \in
                  (IF url # "" THEN RepoAnalyses ELSE {EmptyAnalysis}) :
               LET checklist_items == ItemsOf(application_categories)
                   passed == { it \in checklist_items :
                                  Validated(it, repo_analysis) }
                   failed == checklist_items \ passed
                   assigned ==
                      [it \in checklist_items |->
                          IF it \in passed
                          THEN [ status   |-> "Verified",
                                 evidence |-> url,
                                 comments |-> [text |-> "Automatically verified",
                                               wf |-> 0] ]
                          ELSE [ items[it] EXCEPT
                                   !.comments = [text |-> "Validation failed",
                                                 wf |-> 0] ]]
               IN /\ items' = Flush(items, items, assigned)
                  /\ steps' = [steps EXCEPT ![w][k] =
                        [@ EXCEPT
                           !.status = "completed",
                           !.completed_at = "set",
                           !.result_summary =
                              "Application requirements validation completed",
                           !.details =
                              AppRequirementDetails(passed, failed,
                                                    repo_analysis),
                           !.findings = @ \o FindingsFor(
                              << "Failed", "to", "validate", "requirement:" >>,
                              failed)]]
                  /\ tasks' = Continue(w, tasks[w].step, RequirementSuccess(failed))
    /\ UNCHANGED << analysis,
                    appExists, application_categories, platform_categories,
                    workflows >>

\* ------------------------------------------------------------------------
\* _validate_platform_requirements
\* ------------------------------------------------------------------------
\* Lines 1346-1372: load the application with its platform categories and
\* their items, skip the step when it has no platform category, otherwise
\* keep the loaded items and sleep.
LoadPlatformRequirements(w) ==
    /\ InExecutor(w, "platform_requirements")
    /\ LET k == tasks[w].step
       IN
       \/ \* lines 1351-1352: the application is gone
          /\ ~appExists
          /\ tasks' = Continue(w, tasks[w].step, FALSE)
          /\ UNCHANGED steps
       \/ \* lines 1354-1359
          /\ appExists
          /\ platform_categories = {}
          /\ steps' = [steps EXCEPT ![w][k] =
                [@ EXCEPT !.status = "skipped",
                          !.completed_at = "set",
                          !.result_summary = "Skipped"]]
          /\ tasks' = Continue(w, tasks[w].step, TRUE)
       \/ /\ appExists
          /\ platform_categories # {}
          /\ tasks' = [tasks EXCEPT
                ![w].pc = "platform_sleep",
                ![w].loaded = [it \in ItemsOf(platform_categories) |-> items[it]]]
          /\ UNCHANGED steps
    /\ UNCHANGED << analysis,
                    appExists, application_categories, platform_categories,
                    items, workflows >>

\* Lines 1374-1440: after the sleep every loaded item passes or fails at
\* random; passed items are marked Verified, failed ones get a finding.
ValidatePlatformRequirements(w) ==
    /\ tasks[w].pc = "platform_sleep"
    /\ LET k == tasks[w].step
           loaded == tasks[w].loaded
           checklist_items == DOMAIN loaded
       IN
       \/ \* an exception inside the try block (lines 1427-1437)
          /\ steps' = ExecutorFailed(w)
          /\ tasks' = [Continue(w, tasks[w].step, FALSE) EXCEPT ![w].loaded = << >>]
          /\ UNCHANGED items
       \/ \E passed \in SUBSET checklist_items :
             LET failed == checklist_items \ passed
                 assigned ==
                    [it \in passed |->
                        [ status   |-> "Verified",
                          evidence |-> "https://platform-verification",
                          comments |-> [text |-> "Automatically verified by validation workflow",
                                        wf |-> 0] ]]
             IN /\ items' = Flush(items, loaded, assigned)
                /\ steps' = [steps EXCEPT ![w][k] =
                      [@ EXCEPT
                         !.status = "completed",
                         !.completed_at = "set",
                         !.result_summary =
                            "Platform requirements validation completed",
                         !.details = RequirementDetails(passed, failed),
                         !.findings = @ \o FindingsFor(
                            << "Failed", "to", "validate", "platform",
                               "requirement:" >>, failed)]]
                /\ tasks' = [Continue(w, tasks[w].step,
                                      RequirementSuccess(failed))
                               EXCEPT ![w].loaded = << >>]
    /\ UNCHANGED << analysis,
                    appExists, application_categories, platform_categories,
                    workflows >>

\* ------------------------------------------------------------------------
\* _check_external_integrations
\* ------------------------------------------------------------------------
\* The integrations of a request in the order the dict is iterated.
IntegrationOrder == << "jira", "grafana" >>

\* Variant of IntegrationFindings that records the findings as warnings.
IntegrationFindings_AsWarnings(failed) ==
    LET order == SelectSeq(IntegrationOrder, LAMBDA n : n \in failed)
    IN [j \in 1..Len(order) |->
          Finding(<< "Failed", "to", "integrate", "with", order[j] >>,
                  "warning")]

\* Lines 1519-1527: one error finding per failed integration, in the order
\* the loop meets them.
IntegrationFindings(failed) ==
    LET order == SelectSeq(IntegrationOrder, LAMBDA n : n \in failed)
    IN [j \in 1..Len(order) |->
          Finding(<< "Failed", "to", "integrate", "with", order[j] >>,
                  "error")]

\* Lines 1478-1576: every configured integration succeeds or fails at
\* random; a failed one gets an error finding; the step is COMPLETED and
\* success is failed_count = 0.
CheckExternalIntegrations(w) ==
    /\ InExecutor(w, "external_integration")
    /\ LET k == tasks[w].step
           integrations == tasks[w].request.integrations
       IN
       \/ \* an exception inside the outer try block (lines 1563-1573)
          /\ steps' = ExecutorFailed(w)
          /\ tasks' = Continue(w, tasks[w].step, FALSE)
       \/ \E failed \in SUBSET integrations :
             LET success_count == Cardinality(integrations \ failed)
                 failed_count == Cardinality(failed)
                 success == failed_count = 0
             IN /\ steps' = [steps EXCEPT ![w][k] =
                      [@ EXCEPT
                         !.status = "completed",
                         !.completed_at = "set",
                         !.result_summary =
                            "External integrations check completed",
                         !.details =
                            [ kind          |-> "integrations",
                              results       |-> [n \in integrations |->
                                 IF n \in failed THEN "failed" ELSE "success"],
                              success_count |-> success_count,
                              failed_count  |-> failed_count ],
                         !.findings = @ \o IntegrationFindings(failed)]]
                /\ tasks' = Continue(w, tasks[w].step, success)
    /\ UNCHANGED << analysis,
                    appExists, application_categories, platform_categories,
                    items, workflows >>

\* ------------------------------------------------------------------------
\* _update_checklist_items
\* ------------------------------------------------------------------------
\* str.find(sub) >= 0 on word sequences: sub occurs contiguously in text.
Contains(text, sub) ==
    \E k \in 1..(Len(text) + 1) :
       /\ k + Len(sub) - 1 <= Len(text)
       /\ SubSeq(text, k, k + Len(sub) - 1) = sub

\* Lines 1598-1607: the findings of the workflow's steps whose status is
\* COMPLETED.
AllFindings(step_rows) ==
    UNION { { step_rows[k].findings[j] : j \in 1..Len(step_rows[k].findings) } :
            k \in { n \in 1..Len(step_rows) :
                       step_rows[n].status = "completed" } }

\* Lines 1611-1614
EvidenceUrl(workflow) ==
    IF workflow.commit_id # Null
    THEN (IF workflow.repository_url # "" THEN "https://repo/tree/commit" ELSE Null)
    ELSE workflow.repository_url

\* Variant of ReconcileItem: an item found Completed is promoted to
\* Verified.
ReconcileItem_Promotes(item, description, all_findings, evidence_url, w) ==
    IF \E f \in all_findings : Contains(f.description, description)
    THEN [item EXCEPT
            !.status = "In Progress",
            !.comments = [text |-> "Validation found issues that need to be addressed",
                          wf |-> 0]]
    ELSE IF item.status # "Verified"
    THEN [ status   |-> IF item.status = "Completed" THEN "Verified" ELSE "Completed",
           evidence |-> evidence_url,
           comments |-> [text |-> "Verified automatically in validation workflow",
                         wf |-> w] ]
    ELSE item

\* Lines 1616-1648: the new row of one checklist item.
ReconcileItem(item, description, all_findings, evidence_url, w) ==
    IF \E f \in all_findings : Contains(f.description, description)
    THEN [item EXCEPT
            !.status = "In Progress",
            !.comments = [text |-> "Validation found issues that need to be addressed",
                          wf |-> 0]]
    ELSE IF item.status # "Verified"
    THEN [ status   |-> "Completed",
           evidence |-> evidence_url,
           comments |-> [text |-> "Verified automatically in validation workflow",
                         wf |-> w] ]
    ELSE item

\* workflow.steps as the orchestrator's session presents it (line 1600):
\* the row the session still holds as step_model keeps the status it was
\* loaded with, every other row is read as committed.  Findings are queried
\* by step id (line 1606) and are read as committed.
SessionSteps(w) ==
    [ k \in 1..Len(steps[w]) |->
        IF k = tasks[w].step_model.row
        THEN [steps[w][k] EXCEPT !.status = tasks[w].step_model.status]
        ELSE steps[w][k] ]

\* Variant of Reconcile that commits no item change.
Reconcile_Nothing(stored, all_findings, workflow, w) == stored

\* Lines 1616-1651: the checklist_items table after the two item loops and
\* the commit, for the findings collected and the workflow row passed in.
Reconcile(stored, all_findings, workflow, w) ==
    LET touched == ItemsOf(application_categories \cup platform_categories)
        assigned == [it \in touched |->
           ReconcileItem(stored[it], Description(it), all_findings,
                         EvidenceUrl(workflow), w)]
    IN Flush(stored, stored, assigned)

\* The checklist_items table after _update_checklist_items(db, app_id,
\* workflow) for workflow w whose row is about to be `workflow`.
UpdateChecklistItems(w, workflow) ==
    IF ~appExists
    THEN items                                    \* lines 1594-1596
    ELSE Reconcile(items, AllFindings(SessionSteps(w)), workflow, w)

\* Variant of CallsReconciler: the checklist is reconciled when a step has
\* failed.
CallsReconciler_WhenFailed(all_steps_successful) == ~all_steps_successful

\* Variant of CallsReconciler: the checklist is reconciled whatever the
\* verdict.
CallsReconciler_Always(all_steps_successful) == TRUE

\* Line 281: _update_checklist_items is called when every step succeeded.
CallsReconciler(all_steps_successful) == all_steps_successful

\* Lines 274-294: every step of the list has been handled; record the
\* verdict, reconcile the checklist when every step succeeded, commit.  An
\* exception raised on the way, before _update_checklist_items has changed
\* an item (application.name of an expired, deleted application at line
\* 278, a failing query), is caught by the outer handler, which marks the
\* workflow failed and commits.
FinishWorkflow(w) ==
    /\ tasks[w].pc = "loop"
    /\ tasks[w].i > Len(tasks[w].steps_to_run)
    /\ LET ok == tasks[w].all_steps_successful
           verdict == [workflows[w] EXCEPT
              !.status = IF ok THEN "completed" ELSE "failed",
              !.completed_at = "set",
              !.overall_compliance = BoolText(ok),
              !.summary = IF ok THEN "Validation passed" ELSE "Validation failed"]
       IN
       \/ /\ workflows' = [workflows EXCEPT ![w] = verdict]
          /\ items' = IF CallsReconciler(ok)
                      THEN UpdateChecklistItems(w, verdict)
                      ELSE items
          /\ tasks' = [tasks EXCEPT
                ![w].pc = "returned",
                ![w].reconciled =
                    IF CallsReconciler(ok)
                    THEN [ passes       |-> @.passes + 1,
                           found        |-> appExists,
                           all_findings |-> IF appExists
                                            THEN AllFindings(SessionSteps(w))
                                            ELSE {},
                           before       |-> items ]
                    ELSE @]
       \/ /\ ok
          /\ workflows' = [workflows EXCEPT ![w] =
                [verdict EXCEPT !.status = "failed",
                                !.summary = "Validation failed: error"]]
          /\ UNCHANGED items
          /\ tasks' = [tasks EXCEPT ![w].pc = "returned"]
    /\ UNCHANGED << analysis,
                    appExists, application_categories, platform_categories,
                    steps >>

\* ------------------------------------------------------------------------
\* The system
\* ------------------------------------------------------------------------
Next ==
    \/ \E r \in Requests : InitializeWorkflow(r)
    \/ DeleteApplication
    \/ \E w \in WorkflowIds : StartRun(w)
    \/ \E w \in WorkflowIds : StepNotFound(w)
    \/ \E w \in WorkflowIds : SkipStep(w)
    \/ \E w \in WorkflowIds : BeginExecutor(w)
    \/ \E w \in WorkflowIds : ExecutorRaises(w)
    \/ \E w \in WorkflowIds : RunCodeQualityCheck(w)
    \/ \E w \in WorkflowIds : RunSecurityCheck(w)
    \/ \E w \in WorkflowIds : ValidateAppRequirements(w)
    \/ \E w \in WorkflowIds : LoadPlatformRequirements(w)
    \/ \E w \in WorkflowIds : ValidatePlatformRequirements(w)
    \/ \E w \in WorkflowIds : CheckExternalIntegrations(w)
    \/ \E w \in WorkflowIds : FinishWorkflow(w)

Spec == Init /\ [][Next]_vars

\* run_validation_workflow is a public method that takes any workflow id:
\* a further invocation for a workflow whose earlier run has returned.
RunAgain(w) ==
    /\ tasks[w].pc = "returned"
    /\ tasks[w].runs < MaxRuns
    /\ tasks' = [tasks EXCEPT ![w].pc = "scheduled",
                              ![w].runs = tasks[w].runs + 1]
    /\ UNCHANGED << analysis,
                    appExists, application_categories, platform_categories,
                    items, workflows, steps >>

NextRerun ==
    \/ Next
    \/ \E w \in WorkflowIds : RunAgain(w)

\* The rerun specification starts from the application with both kinds of
\* category associated and every item not started.
InitRerun ==
    /\ Init
    /\ application_categories = {"ac1"}
    /\ platform_categories = {"pc1"}
    /\ \A it \in ItemIds : items[it].status = "Not Started"

SpecRerun == InitRerun /\ [][NextRerun]_vars

\* ------------------------------------------------------------------------
\* Properties
\* ------------------------------------------------------------------------
WorkflowTerminal == {"completed", "failed"}

StepTerminal == {"completed", "failed", "skipped"}

\* The success flags the steps of the current run returned, in order.
Successes(w) == { j \in 1..Len(tasks[w].results) : tasks[w].results[j].success }

AllSucceeded(w) == Successes(w) = 1..Len(tasks[w].results)

StatusOf(w, k) == steps[w][k].status

\* C1: a workflow in a terminal status has overall_compliance equal to the
\* conjunction of the success flags its steps returned, and a failed step
\* means overall_compliance is false and the workflow is failed.
C1_OverallComplianceIsConjunction ==
    \A w \in WorkflowIds :
       workflows[w].status \in WorkflowTerminal =>
          /\ workflows[w].overall_compliance = BoolText(AllSucceeded(w))
          /\ (\E k \in 1..Len(steps[w]) : StatusOf(w, k) = "failed") =>
                /\ workflows[w].overall_compliance = "false"
                /\ workflows[w].status = "failed"

\* C1 witness: a finished run in which one step succeeded, a later or
\* earlier one failed, and the failed step row is there.
C1_Witness ==
    \E w \in WorkflowIds :
       /\ workflows[w].status = "failed"
       /\ Len(tasks[w].results) = 2
       /\ Cardinality(Successes(w)) = 1
       /\ \E k \in 1..Len(steps[w]) : StatusOf(w, k) = "failed"
       /\ \E k \in 1..Len(steps[w]) : StatusOf(w, k) = "completed"

\* C2: a workflow's status changes only along pending -> in_progress,
\* in_progress -> completed and in_progress -> failed, also when
\* run_validation_workflow is invoked again for the same workflow.
C2_WorkflowStatusEdges ==
    [][ \A w \in WorkflowIds :
           workflows'[w].status # workflows[w].status =>
              << workflows[w].status, workflows'[w].status >> \in
                 { << "pending", "in_progress" >>,
                   << "in_progress", "completed" >>,
                   << "in_progress", "failed" >> } ]_vars

\* The outer handler of run_validation_workflow caught an exception.
ExceptionEscaped(w) == workflows[w].summary = "Validation failed: error"

AllStepsCompletedOrSkipped(w) ==
    \A k \in 1..Len(steps[w]) : StatusOf(w, k) \in {"completed", "skipped"}

\* C3: a workflow ends completed exactly when every one of its steps ended
\* completed or skipped (and no exception escaped), and ends failed only
\* when a step ended failed or an exception escaped step execution.
C3_VerdictMatchesStepStatuses ==
    \A w \in WorkflowIds :
       workflows[w].status \in WorkflowTerminal =>
          /\ workflows[w].status = "completed" => AllStepsCompletedOrSkipped(w)
          /\ AllStepsCompletedOrSkipped(w) =>
                workflows[w].status = "completed" \/ ExceptionEscaped(w)
          /\ workflows[w].status = "failed" =>
                \/ \E k \in 1..Len(steps[w]) : StatusOf(w, k) = "failed"
                \/ ExceptionEscaped(w)

\* C4: once an invocation of run_validation_workflow has returned, the
\* workflow is completed or failed, also when the application was gone at
\* the start of the run.
C4_RunEndsTerminal ==
    \A w \in WorkflowIds :
       tasks[w].pc = "returned" => workflows[w].status \in WorkflowTerminal

\* C5: a run that does not find the application runs no step and leaves the
\* workflow failed with a summary.
C5_MissingApplicationFailsWorkflow ==
    \A w \in WorkflowIds :
       (tasks[w].pc = "returned" /\ tasks[w].application = "not found") =>
          /\ \A k \in 1..Len(steps[w]) : StatusOf(w, k) = "queued"
          /\ workflows[w].status = "failed"
          /\ workflows[w].summary # Null

\* C6: steps run one at a time in list order: a step that has left queued
\* has only finished steps before it in the list, and at most one step of
\* a workflow is running.
C6_StepsRunOneAtATime ==
    \A w \in WorkflowIds :
       /\ Cardinality({ k \in 1..Len(steps[w]) : StatusOf(w, k) = "running" }) <= 1
       /\ \A k \in 1..Len(steps[w]) :
             StatusOf(w, k) # "queued" =>
                \A j \in 1..(k - 1) : StatusOf(w, j) \in StepTerminal

\* C7: every workflow has exactly one step row per step type its request
\* names, also when the list names a type more than once.
C7_OneStepPerRequestedType ==
    \A w \in WorkflowIds :
       \A t \in Range(tasks[w].request.steps) :
          Cardinality(MatchingRows(w, t)) = 1

\* The status changes of the step sub-state machine of the specification.
StepMachineEdges ==
    { << "queued", "running" >> } \cup
    { << "running", t >> : t \in StepTerminal }

\* The changes the orchestrator makes without an executor having set the
\* step running: it skips the step, or the executor call raised.
OrchestratorEdges == { << "queued", "skipped" >>, << "queued", "failed" >> }

\* The changes a further execution of an already executed step makes.
ReexecutionEdges ==
    { << s, t >> : s \in StepTerminal, t \in {"running", "failed"} }

Occurrences(q, x) == Cardinality({ k \in 1..Len(q) : q[k] = x })

\* C8 as stated: every step status change is queued -> running or
\* running -> completed, failed or skipped.
C8_StepMachineAsStated ==
    [][ \A w \in WorkflowIds : \A k \in 1..Len(steps[w]) :
           steps'[w][k].status # steps[w][k].status =>
              << steps[w][k].status, steps'[w][k].status >> \in StepMachineEdges
      ]_vars

\* C8 as amended: a step's status changes along queued -> running ->
\* {completed, failed, skipped}, or along queued -> skipped and
\* queued -> failed when the orchestrator skips the step or the executor
\* call raises; a finished step changes again only when the step list
\* names its type more than once, and then to running or failed.
C8_StepMachineAmended ==
    [][ \A w \in WorkflowIds : \A k \in 1..Len(steps[w]) :
           steps'[w][k].status # steps[w][k].status =>
              LET edge == << steps[w][k].status, steps'[w][k].status >>
              IN \/ edge \in StepMachineEdges \cup OrchestratorEdges
                 \/ /\ edge \in ReexecutionEdges
                    /\ Occurrences(tasks[w].steps_to_run,
                                   steps[w][k].step_type) > 1
      ]_vars

\* C8 witness: a step the orchestrator skipped without it ever running,
\* next to a step that went through running to completed.
C8_Witness ==
    \E w \in WorkflowIds : \E j, k \in 1..Len(steps[w]) :
       /\ StatusOf(w, j) = "skipped" /\ steps[w][j].started_at = Null
       /\ StatusOf(w, k) = "completed" /\ steps[w][k].started_at = "set"

\* C9: when a step's executor fails (raises or returns success = False) the
\* step ends failed with an error message and a completion time.
C9_FailedExecutorFailsStep ==
    [][ \A w \in WorkflowIds :
           ( /\ Len(tasks'[w].results) = Len(tasks[w].results) + 1
             /\ ~tasks'[w].results[Len(tasks'[w].results)].success ) =>
              LET k == tasks'[w].results[Len(tasks'[w].results)].row
              IN /\ steps'[w][k].status = "failed"
                 /\ steps'[w][k].error_message # Null
                 /\ steps'[w][k].completed_at # Null ]_vars

\* C10: initialize_workflow adds a pending workflow without verdict or
\* completion time and one queued, unstarted step per entry of the
\* requested list, and changes nothing else; until the run starts the
\* steps stay queued, and no checklist item changes unless a run is under
\* way.
C10_InitializeOnlyCreates ==
    [][ /\ Len(workflows') = Len(workflows) + 1 =>
             LET w == Len(workflows')
                 requested == tasks'[w].request.steps
             IN /\ workflows'[w].status = "pending"
                /\ workflows'[w].overall_compliance = Null
                /\ workflows'[w].completed_at = Null
                /\ Len(steps'[w]) = Len(requested)
                /\ \A k \in 1..Len(requested) :
                      /\ steps'[w][k].step_type = requested[k]
                      /\ steps'[w][k].status = "queued"
                      /\ steps'[w][k].started_at = Null
                      /\ steps'[w][k].completed_at = Null
                /\ tasks'[w].pc = "scheduled"
                /\ items' = items
                /\ appExists' = appExists
                /\ \A v \in WorkflowIds :
                      /\ workflows'[v] = workflows[v]
                      /\ steps'[v] = steps[v]
                      /\ tasks'[v] = tasks[v]
        /\ \A w \in WorkflowIds :
              tasks[w].pc = "scheduled" =>
                 /\ workflows[w].status = "pending"
                 /\ \A k \in 1..Len(steps[w]) : StatusOf(w, k) = "queued"
        /\ items' # items =>
              \E w \in WorkflowIds : tasks[w].pc \notin {"scheduled", "returned"}
      ]_vars

\* C10 witness: a workflow just initialized for a two-step request, its run
\* not started.
C10_Witness ==
    \E w \in WorkflowIds :
       /\ tasks[w].pc = "scheduled"
       /\ Len(steps[w]) = 2
       /\ workflows[w].status = "pending"

\* The request left the step list to the default (pydantic fills in the
\* default list) or gave an empty one.
NamesNoSteps(w) == tasks[w].request.steps \in { << >>, DefaultSteps }

\* The rows the steps of the current run worked on, in execution order.
RowsRun(w) == [ j \in 1..Len(tasks[w].results) |-> tasks[w].results[j].row ]

\* C11: a workflow whose request names no steps has one step row per step
\* type, in the default order, and a run that found the application and
\* reached its end has executed exactly those rows in that order.
C11_DefaultStepsCreatedAndRun ==
    \A w \in WorkflowIds :
       NamesNoSteps(w) =>
          /\ [ k \in 1..Len(steps[w]) |-> steps[w][k].step_type ] = DefaultSteps
          /\ (tasks[w].pc = "returned" /\ tasks[w].application = "found") =>
                RowsRun(w) = [ k \in 1..Len(DefaultSteps) |-> k ]

\* The orchestrator's own skip of the step at the head of the loop: it
\* marks the row skipped and goes on to the next step without calling an
\* executor.
OrchestratorSkips(w) ==
    /\ tasks'[w].pc = "loop"
    /\ Len(tasks'[w].results) = Len(tasks[w].results) + 1
    /\ LET result == tasks'[w].results[Len(tasks'[w].results)]
       IN steps'[w][result.row].status = "skipped"

\* The condition under which the specification has a step skipped.
NothingToRun(w, step_type) ==
    \/ step_type \notin ExecutorTypes
    \/ step_type = "external_integration" /\ tasks[w].request.integrations = {}

\* C12: when the orchestrator handles a step that has a row, it skips the
\* step exactly when the step type has no executor or is
\* external_integration with no integrations configured, and a step it
\* skips is recorded as successful.
C12_SkippedExactlyWhenNothingToRun ==
    [][ \A w \in WorkflowIds :
           ( /\ AtStep(w)
             /\ MatchingRows(w, CurrentType(w)) # {}
             /\ tasks'[w] # tasks[w] ) =>
              /\ OrchestratorSkips(w) <=> NothingToRun(w, CurrentType(w))
              /\ OrchestratorSkips(w) =>
                    tasks'[w].results[Len(tasks'[w].results)].success
      ]_vars

\* C12 witness: a finished run that skipped external_integration for want
\* of integrations and a step type without executor, and ended completed.
C12_Witness ==
    \E w \in WorkflowIds :
       /\ tasks[w].request.steps = << "external_integration", "performance" >>
       /\ tasks[w].request.integrations = {}
       /\ \A k \in 1..2 : steps[w][k].status = "skipped" /\ steps[w][k].started_at = Null
       /\ workflows[w].status = "completed"

ReconcilerPass(w) ==
    tasks'[w].reconciled.passes = tasks[w].reconciled.passes + 1

\* C14: a checklist item that is Verified before a pass of the reconciler
\* is Verified after it.
C14_VerifiedSurvivesReconciliation ==
    [][ \A w \in WorkflowIds :
           ReconcilerPass(w) =>
              \A it \in ItemIds :
                 items[it].status = "Verified" => items'[it].status = "Verified"
      ]_vars

\* The run of workflow w has ended with a pass of the reconciler that found
\* the application.
Reconciled(w) ==
    /\ tasks[w].pc = "returned"
    /\ tasks[w].reconciled.passes = 1
    /\ tasks[w].reconciled.found

\* C15: after a pass of the reconciler, a second pass over the same
\* workflow with the same findings leaves the status, evidence and
\* comments of every checklist item as the first pass left them.
C15_ReconciliationIdempotent ==
    \A w \in WorkflowIds :
       Reconciled(w) =>
          Reconcile(items, tasks[w].reconciled.all_findings, workflows[w], w)
             = items

\* C15 witness: a pass that matched a finding against one item (now
\* In Progress) and marked another item Completed.
C15_Witness ==
    \E w \in WorkflowIds :
       /\ Reconciled(w)
       /\ tasks[w].reconciled.all_findings # {}
       /\ \E it \in ItemIds :
             /\ tasks[w].reconciled.before[it].status # "In Progress"
             /\ items[it].status = "In Progress"
       /\ \E it \in ItemIds :
             /\ tasks[w].reconciled.before[it].status = "Not Started"
             /\ items[it].status = "Completed"

\* C16: the findings a pass of the reconciler matches against the items
\* are exactly the findings of the workflow's steps whose committed status
\* is completed when the pass is made.
C16_FindingsOfCompletedSteps ==
    \A w \in WorkflowIds :
       Reconciled(w) =>
          tasks[w].reconciled.all_findings = AllFindings(steps[w])

\* The external_integration step on row k of workflow w has checked jira,
\* its only integration, and the check failed.
JiraCheckFailed(w, k) ==
    /\ tasks[w].request.integrations = {"jira"}
    /\ steps[w][k].step_type = "external_integration"
    /\ steps[w][k].details.kind = "integrations"
    /\ steps[w][k].details.results["jira"] = "failed"

\* The findings of a step that have the given severity and name the given
\* integration.
FindingsNaming(step, severity, name) ==
    { j \in 1..Len(step.findings) :
         /\ step.findings[j].severity = severity
         /\ Contains(step.findings[j].description, << name >>) }

\* C17: an external_integration step run for the single integration jira
\* whose check failed is failed and has exactly one finding of severity
\* error naming jira, and the workflow ends with overall_compliance False.
C17_FailedJiraCheckFailsStep ==
    \A w \in WorkflowIds :
       tasks[w].request.steps = << "external_integration" >> =>
          \A k \in 1..Len(steps[w]) :
             JiraCheckFailed(w, k) =>
                /\ steps[w][k].status = "failed"
                /\ Cardinality(FindingsNaming(steps[w][k], "error", "jira")) = 1
                /\ tasks[w].pc = "returned" =>
                      workflows[w].overall_compliance = "false"

\* The app_requirements step on row k of workflow w has stored an analysis
\* of the repository, and that analysis is the error dictionary of a failed
\* clone.
CloneFailed(w, k) ==
    /\ steps[w][k].step_type = "app_requirements"
    /\ steps[w][k].details.kind = "requirements"
    /\ "repository_analysis" \in DOMAIN steps[w][k].details
    /\ "error" \in DOMAIN steps[w][k].details["repository_analysis"]

\* C18: an app_requirements step whose repository clone failed is failed
\* and its error_message is the diagnostic of the clone.
C18_CloneFailureFailsStep ==
    \A w \in WorkflowIds :
       \A k \in 1..Len(steps[w]) :
          CloneFailed(w, k) =>
             /\ steps[w][k].status = "failed"
             /\ steps[w][k].error_message =
                   steps[w][k].details["repository_analysis"]["error"]

\* The categories of the application that a requirement step type reads.
CategoriesOf(step_type) ==
    IF step_type = "app_requirements"
    THEN application_categories
    ELSE platform_categories

\* C19: a requirement step that has ended, no error having been raised,
\* for an application with no checklist item in the categories of its type
\* is skipped.
C19_NoItemsMeansSkipped ==
    \A w \in WorkflowIds :
       \A k \in 1..Len(steps[w]) :
          /\ steps[w][k].step_type \in
                {"app_requirements", "platform_requirements"}
          /\ ItemsOf(CategoriesOf(steps[w][k].step_type)) = {}
          /\ steps[w][k].status \in StepTerminal
          /\ steps[w][k].error_message = Null
          => steps[w][k].status = "skipped"

\* The calls of _analyze_repository on their own, over everything a call
\* can meet.
NextAnalyze == \E env \in AnalysisEnvs : Analyze(env)

SpecAnalyze == InitRerun /\ [][NextAnalyze]_vars

\* The LLM tier is enabled, available and does not throw.
LlmTierRuns(env) ==
    /\ env.use_llm_analysis
    /\ env.code_quality_available
    /\ env.analyzer = "ok"

\* The first tier, in the order LLM, regex, simulated, that is enabled and
\* does not throw.
FirstTier(env) ==
    IF LlmTierRuns(env) THEN "llm"
    ELSE IF env.use_regex_validation THEN "regex"
    ELSE "simulated"

\* C20: for a repository whose clone succeeds, _analyze_repository returns
\* the map of the first tier that is enabled and does not throw.
C20_FirstAvailableTier ==
    (analysis.called /\ analysis.env.clone = "cloned") =>
       analysis.returned.tier = FirstTier(analysis.env)

\* The requirement step on row k of workflow w has stored its counts.
RequirementCounts(w, k) ==
    /\ steps[w][k].step_type \in {"app_requirements", "platform_requirements"}
    /\ steps[w][k].details.kind = "requirements"

\* C21: the counts a requirement step stores satisfy
\* 0 <= passed_items <= total_items, its compliance_percentage is
\* passed_items / total_items * 100 and lies between 0 and 100, and it is 0
\* when total_items is 0.
C21_ComplianceWithinBounds ==
    \A w \in WorkflowIds :
       \A k \in 1..Len(steps[w]) :
          RequirementCounts(w, k) =>
             LET d == steps[w][k].details
             IN /\ 0 <= d.passed_items
                /\ d.passed_items <= d.total_items
                /\ 0 <= d.compliance_percentage
                /\ d.compliance_percentage <= 100
                /\ d.total_items = 0 => d.compliance_percentage = 0
                /\ d.total_items > 0 =>
                      /\ d.compliance_percentage * d.total_items
                            <= d.passed_items * 100
                      /\ d.passed_items * 100
                            < (d.compliance_percentage + 1) * d.total_items

\* One workflow holds a requirement step with some items passed and some
\* failed, and a requirement step with no item at all.
C21_Witness ==
    \E w \in WorkflowIds :
       \E k, j \in 1..Len(steps[w]) :
          /\ RequirementCounts(w, k)
          /\ 0 < steps[w][k].details.passed_items
          /\ steps[w][k].details.passed_items < steps[w][k].details.total_items
          /\ RequirementCounts(w, j)
          /\ steps[w][j].details.total_items = 0

\* C22: a workflow that is completed or failed has an overall_compliance,
\* and it is True exactly when the workflow is completed.
C22_TerminalComplianceMatchesStatus ==
    \A w \in WorkflowIds :
       workflows[w].status \in WorkflowTerminal =>
          /\ workflows[w].overall_compliance # Null
          /\ workflows[w].overall_compliance = BoolText(TRUE)
                <=> workflows[w].status = "completed"

\* ------------------------------------------------------------------------
\* Two workflows of one application
\* ------------------------------------------------------------------------
\* Two requests for the application, which has the platform category pc1
\* with its item p1 already Verified: each workflow validates the platform
\* requirements, with or without a performance step after it.
PairStepLists ==
    { << "platform_requirements" >>,
      << "platform_requirements", "performance" >> }

PairRequests ==
    { r \in Requests : r.steps \in PairStepLists /\ r.repository_url = "" }

PairInitialStatus == "Verified"

\* The state after validate_application has answered both requests.
InitPair ==
    /\ appExists = TRUE
    /\ application_categories = {}
    /\ platform_categories = {"pc1"}
    /\ items = [it \in ItemIds |->
                  [ status   |-> IF it = "p1" THEN PairInitialStatus
                                 ELSE "Not Started",
                    evidence |-> Null,
                    comments |-> NoComment ]]
    /\ \E r1, r2 \in PairRequests :
          /\ workflows = << NewWorkflow(r1), NewWorkflow(r2) >>
          /\ steps = << [k \in 1..Len(r1.steps) |-> NewStep(r1.steps[k])],
                        [k \in 1..Len(r2.steps) |-> NewStep(r2.steps[k])] >>
          /\ tasks = << NewTask(r1), NewTask(r2) >>
    /\ analysis = NoAnalysis

\* The two background tasks, scheduled on one event loop.
NextPair ==
    \/ \E w \in WorkflowIds : StartRun(w)
    \/ \E w \in WorkflowIds : SkipStep(w)
    \/ \E w \in WorkflowIds : BeginExecutor(w)
    \/ \E w \in WorkflowIds : ExecutorRaises(w)
    \/ \E w \in WorkflowIds : LoadPlatformRequirements(w)
    \/ \E w \in WorkflowIds : ValidatePlatformRequirements(w)
    \/ \E w \in WorkflowIds : FinishWorkflow(w)

SpecPair == InitPair /\ [][NextPair]_vars

BothReturned == \A w \in WorkflowIds : tasks[w].pc = "returned"

\* The platform_requirements executor of workflow w marked p1 as passed.
PassedP1(w) ==
    \E k \in 1..Len(steps[w]) :
       /\ steps[w][k].step_type = "platform_requirements"
       /\ steps[w][k].details.kind = "requirements"
       /\ steps[w][k].details.passed_items = 1

\* The reconciler of workflow w ran and matched a finding with p1.
IssueWithP1(w) ==
    \E f \in tasks[w].reconciled.all_findings :
       Contains(f.description, Description("p1"))

\* The status of p1 after workflow w has run on its own from the given
\* status, the executor and the reconciler deciding as they did in w.
RunAlone(status, w) ==
    LET validated == IF PassedP1(w) THEN "Verified" ELSE status
    IN IF tasks[w].reconciled.passes = 0 \/ ~tasks[w].reconciled.found
       THEN validated
       ELSE IF IssueWithP1(w) THEN "In Progress"
       ELSE IF validated # "Verified" THEN "Completed"
       ELSE validated

\* The status of p1 after the two workflows have run one after the other.
OneAfterTheOther(first, second) ==
    RunAlone(RunAlone(PairInitialStatus, first), second)

SerialStatuses == { OneAfterTheOther(1, 2), OneAfterTheOther(2, 1) }

\* A run started while the other was under way.
Overlapped == \E w \in WorkflowIds : ~tasks[w].alone

\* C23: when the two runs did not overlap the final status of p1 is that of
\* running the two workflows one after the other, in one of the two orders;
\* nothing keeps the runs from overlapping, and C23_Witness is an overlapping
\* pair of runs whose final status is that of neither order.
C23_SerialRunsAgreeWithEitherOrder ==
    (BothReturned /\ ~Overlapped) => items["p1"].status \in SerialStatuses

\* Both runs have returned, they overlapped, and the final status of p1
\* differs from running the workflows one after the other in either order.
C23_Witness ==
    /\ BothReturned
    /\ Overlapped
    /\ items["p1"].status \notin SerialStatuses

\* The items of the application's application categories whose description
\* is no key of validation_rules.
ItemsWithoutRule ==
    { it \in ItemsOf(application_categories) :
         ~HasValidationRule(Description(it)) }

\* The executor of the app_requirements step on row k of workflow w goes
\* through its item loop and returns in this step (it returns success=True
\* at no other place).
AppRequirementsValidated(w, k) ==
    /\ InExecutor(w, "app_requirements")
    /\ tasks[w].step = k
    /\ Len(tasks'[w].results) = Len(tasks[w].results) + 1
    /\ tasks'[w].results[Len(tasks'[w].results)].success

\* The findings of a step row that name the item.
FindingsAbout(step, it) ==
    { j \in 1..Len(step.findings) :
         Contains(step.findings[j].description, Description(it)) }

\* C24 as stated: the items without a rule are counted in neither
\* passed_items nor failed_items of the app_requirements step, are not
\* marked Verified and do not make the step fail.
C24_NoRuleItemsUncounted ==
    [][ \A w \in WorkflowIds : \A k \in 1..Len(steps[w]) :
           AppRequirementsValidated(w, k) =>
              /\ steps'[w][k].details.passed_items
                    + steps'[w][k].details.failed_items
                    + Cardinality(ItemsWithoutRule)
                 = steps'[w][k].details.total_items
              /\ \A it \in ItemsWithoutRule :
                    items'[it].status = items[it].status
              /\ steps'[w][k].status = "completed" ]_vars

\* C24 amended: every item without a rule is counted in failed_items, never
\* in passed_items, gets one warning finding and the comment of a failed
\* validation, keeps its status, and the step completes.
C24_NoRuleItemsCountAsFailed ==
    [][ \A w \in WorkflowIds : \A k \in 1..Len(steps[w]) :
           AppRequirementsValidated(w, k) =>
              /\ steps'[w][k].details.passed_items
                    + steps'[w][k].details.failed_items
                 = steps'[w][k].details.total_items
              /\ steps'[w][k].details.failed_items
                    >= Cardinality(ItemsWithoutRule)
              /\ steps'[w][k].details.passed_items
                    <= Cardinality(ItemsOf(application_categories)
                                      \ ItemsWithoutRule)
              /\ \A it \in ItemsWithoutRule :
                    /\ items'[it].status = items[it].status
                    /\ items'[it].evidence = items[it].evidence
                    /\ items'[it].comments.text = "Validation failed"
                    /\ Cardinality(FindingsAbout(steps'[w][k], it))
                          = Cardinality(FindingsAbout(steps[w][k], it)) + 1
                    /\ \A j \in FindingsAbout(steps'[w][k], it) :
                          steps'[w][k].findings[j].severity = "warning"
              /\ steps'[w][k].status = "completed" ]_vars

\* An app_requirements step has completed for an application that has an
\* item without a rule, and another item passed.
C24_Witness ==
    \E w \in WorkflowIds : \E k \in 1..Len(steps[w]) :
       /\ steps[w][k].step_type = "app_requirements"
       /\ steps[w][k].details.kind = "requirements"
       /\ ItemsWithoutRule # {}
       /\ steps[w][k].details.passed_items > 0

\* C25: when the LLM tier and the regex tier both succeed the returned map
\* has every field of both results, and a field of both has the value the
\* LLM gave it.
C25_MergeKeepsLlmValues ==
    (/\ analysis.called
     /\ analysis.returned.tier = "llm"
     /\ analysis.env.use_regex_validation) =>
       LET llm_results == ParseLlmAnalysisReport(analysis.env)
           regex_results == AnalyzeRepositoryWithRegex(analysis.env)
           merged == analysis.returned.results
       IN /\ DOMAIN merged = DOMAIN llm_results \cup DOMAIN regex_results
          /\ \A key \in DOMAIN llm_results \cap DOMAIN regex_results :
                merged[key] = llm_results[key]

\* The executor of the external_integration step on row k of workflow w
\* finishes its loop over the integrations in this step.
IntegrationsChecked(w, k) ==
    /\ InExecutor(w, "external_integration")
    /\ tasks[w].step = k
    /\ steps'[w][k].status = "completed"

\* The findings row k of workflow w gains in this step.
AddedFindings(w, k) ==
    SubSeq(steps'[w][k].findings, Len(steps[w][k].findings) + 1,
           Len(steps'[w][k].findings))

\* C26: an external_integration step run for a non-empty integrations map
\* records a result for every integration, success_count + failed_count is
\* the number of integrations, it adds one error finding per failed
\* integration and none per successful one, and it returns success exactly
\* when failed_count is 0.
C26_IntegrationResultsAndFindings ==
    [][ \A w \in WorkflowIds : \A k \in 1..Len(steps[w]) :
           IntegrationsChecked(w, k) =>
              LET integrations == tasks[w].request.integrations
                  d == steps'[w][k].details
                  added == AddedFindings(w, k)
                  NamingIn(n) ==
                     { j \in 1..Len(added) :
                          Contains(added[j].description, << n >>) }
              IN /\ integrations # {}
                 /\ d.kind = "integrations"
                 /\ DOMAIN d.results = integrations
                 /\ d.success_count + d.failed_count
                       = Cardinality(integrations)
                 /\ d.failed_count
                       = Cardinality({ n \in integrations :
                                          d.results[n] = "failed" })
                 /\ SubSeq(steps'[w][k].findings, 1,
                           Len(steps[w][k].findings)) = steps[w][k].findings
                 /\ Len(added) = d.failed_count
                 /\ \A j \in 1..Len(added) : added[j].severity = "error"
                 /\ \A n \in integrations :
                       Cardinality(NamingIn(n))
                          = IF d.results[n] = "failed" THEN 1 ELSE 0
                 /\ tasks'[w].results[Len(tasks'[w].results)].success
                       <=> d.failed_count = 0 ]_vars

\* An external_integration step has checked two integrations, of which one
\* failed and one succeeded.
C26_Witness ==
    \E w \in WorkflowIds : \E k \in 1..Len(steps[w]) :
       /\ steps[w][k].step_type = "external_integration"
       /\ steps[w][k].details.kind = "integrations"
       /\ steps[w][k].details.failed_count = 1
       /\ steps[w][k].details.success_count = 1

\* C27: a workflow that is completed or failed has no step that is queued
\* or running.
C27_TerminalWorkflowHasNoOpenStep ==
    \A w \in WorkflowIds :
       workflows[w].status \in WorkflowTerminal =>
          \A k \in 1..Len(steps[w]) :
             steps[w][k].status \notin {"queued", "running"}

\* The run of workflow w stores its verdict in this step.
BecomesTerminal(w) ==
    /\ workflows[w].status \notin WorkflowTerminal
    /\ workflows'[w].status \in WorkflowTerminal

\* C28: when a run stores its verdict its loop has gone through every step
\* type of its list, whatever the earlier steps returned, and no step row of
\* the workflow is still queued.
C28_FailureDoesNotStopRun ==
    [][ \A w \in WorkflowIds :
           BecomesTerminal(w) =>
              /\ tasks[w].i > Len(tasks[w].steps_to_run)
              /\ \A k \in 1..Len(steps[w]) : steps'[w][k].status # "queued"
      ]_vars

\* The item is as it was before any run: no executor and no reconciler has
\* written its evidence or its comments.
Untouched(it) ==
    /\ items[it].evidence = Null
    /\ items[it].comments = NoComment

RequirementStepCompletes(w) ==
    /\ \/ InExecutor(w, "app_requirements")
       \/ tasks[w].pc = "platform_sleep"
    /\ steps'[w][tasks[w].step].status = "completed"
    /\ tasks'[w].pc # tasks[w].pc

LastResult(w) == tasks'[w].results[Len(tasks'[w].results)]

====
